---- MODULE Spec2Model ----
(***************************************************************************)
(* isp-monitor: the reachability prober (scripts/monitor.py) and the       *)
(* UptimeRobot synchronizer (scripts/sync_uptimerobot.py).                 *)
(*                                                                         *)
(* Numbers.  Python floats are modelled as exact decimals held in          *)
(* integers: latencies, jitter and packet loss in hundredths (the code     *)
(* rounds all three to two decimals), the quality score in tenths (the     *)
(* code rounds it to one decimal), intermediate values of the score in     *)
(* thousandths.  round(x, k) is round-half-to-even on the exact decimal.   *)
(* On binary floats the direction of an exact decimal tie (x.x5) depends   *)
(* on the representation error of the operand, so the input sets below     *)
(* hold no value whose score is an exact tie.                              *)
(***************************************************************************)
EXTENDS Integers, Sequences, FiniteSets, TLC

VARIABLES
    \* calculate_quality_score on its own
    latency, jitter, packet_loss, quality_score, raised, prev_score,
    \* ping_host on its own, and inside monitor.main
    count, proc, ping_result,
    \* monitor.main: position, loop index, results, exit status (-1 while
    \* the process runs), and the history of probes and writes
    pc, idx, results, exit_code, events,
    \* the file system: the CSV log of each script, its daily JSON files,
    \* and the UTC day
    csv_files, json_files, today,
    \* the runs: the script launched last, the number of runs so far, and
    \* what went wrong in the current run (history)
    script, run, trouble,
    \* sync_uptimerobot: the credential, the account, the monitors fetched,
    \* and summary.json
    api_key, account_info, monitors, summary_file

scoreVars == <<latency, jitter, packet_loss, quality_score, raised, prev_score>>
pingVars == <<count, proc, ping_result>>
mainVars == <<pc, idx, results, exit_code, events>>
fileVars == <<csv_files, json_files, today>>
launchVars == <<script, run>>
syncVars == <<api_key, account_info, monitors, summary_file>>
vars == <<scoreVars, pingVars, mainVars, fileVars, launchVars, trouble, syncVars>>

----------------------------------------------------------------------------
(* Bounds of the model *)

\* coarse latency grid: 0, 20 ms, ..., 20 * MaxLatencySteps ms
MaxLatencySteps == 15
\* coarse jitter grid: 0, 5 ms, ..., 5 * MaxJitterSteps ms
MaxJitterSteps == 11
\* sample counts 1..MaxCount given to ping_host
MaxCount == 5

----------------------------------------------------------------------------
(* Arithmetic helpers *)

Max(a, b) == IF a >= b THEN a ELSE b
Min(a, b) == IF a <= b THEN a ELSE b

\* round(num / den) to the nearest integer, ties to even (den > 0);
\* \div is the floor and % is non-negative, so negative num is covered
RoundHalfEven(num, den) ==
    LET q == num \div den
        r == num % den
    IN  IF 2 * r > den THEN q + 1
        ELSE IF 2 * r < den THEN q
        ELSE IF q % 2 = 0 THEN q ELSE q + 1

\* floor of the square root of n >= 0
RECURSIVE Isqrt(_)
Isqrt(n) ==
    IF n < 2 THEN n
    ELSE LET s == 2 * Isqrt(n \div 4)
         IN  IF (s + 1) * (s + 1) <= n THEN s + 1 ELSE s

RECURSIVE SumSeq(_)
SumSeq(s) == IF s = <<>> THEN 0 ELSE Head(s) + SumSeq(Tail(s))

RECURSIVE SumSq(_)
SumSq(s) == IF s = <<>> THEN 0 ELSE Head(s) * Head(s) + SumSq(Tail(s))

----------------------------------------------------------------------------
(* monitor.py: calculate_quality_score *)

\* a faulty variant: it drops the latency floor: low latency earns a bonus
calculate_quality_score_nofloor(lat, jit, loss) ==
    IF loss >= 10000 THEN 0
    ELSE Max(0, Min(1000,
             RoundHalfEven(100000 - (lat - 5000) * 5 - jit * 20 - loss * 100, 100)))

\* a faulty variant: it forgets the clamp
calculate_quality_score_noclamp(lat, jit, loss) ==
    IF loss >= 10000 THEN 0
    ELSE RoundHalfEven(100000 - (IF lat > 5000 THEN (lat - 5000) * 5 ELSE 0)
                              - jit * 20 - loss * 100, 100)

\* a faulty variant: it adds the jitter penalty instead of subtracting it
calculate_quality_score_addjitter(lat, jit, loss) ==
    IF loss >= 10000 THEN 0
    ELSE Max(0, Min(1000,
             RoundHalfEven(100000 - (IF lat > 5000 THEN (lat - 5000) * 5 ELSE 0)
                                  + jit * 20 - loss * 100, 100)))

\* lat, jit, loss in hundredths; the result in tenths
calculate_quality_score(lat, jit, loss) ==
    IF loss >= 10000 THEN 0
    ELSE LET base == 100000                                  \* score = 100
             s1 == IF lat > 5000 THEN base - (lat - 5000) * 5 ELSE base
             s2 == s1 - jit * 20
             s3 == s2 - loss * 100
         IN  Max(0, Min(1000, RoundHalfEven(s3, 100)))

----------------------------------------------------------------------------
(* monitor.py: ping_host *)

None == [none |-> TRUE]

\* count of the call ping_host(ip) in main
DefaultCount == 5

\* round-trip times (ms) a reply line can carry
ReplyTimes == {12, 70}

RECURSIVE SeqsUpTo(_, _)
SeqsUpTo(S, n) ==
    IF n = 0 THEN {<<>>}
    ELSE LET shorter == SeqsUpTo(S, n - 1)
         IN  shorter \cup {Append(s, x) : s \in {t \in shorter : Len(t) = n - 1}, x \in S}

\* what subprocess.run(["ping", "-c", n, ...]) can do: raise TimeoutExpired
\* or another exception, or return a code and the 'time=' values of the
\* reply lines of its output (at most one reply line per request)
PingOutcomes(n) ==
    {[exc |-> e, returncode |-> 0, times |-> <<>>] : e \in {"timeout", "error"}}
    \cup {[exc |-> "none", returncode |-> rc, times |-> t] :
             rc \in {0, 1}, t \in SeqsUpTo(ReplyTimes, n)}

\* statistics.mean, rounded to two decimals (hundredths)
MeanCenti(xs) == RoundHalfEven(100 * SumSeq(xs), Len(xs))

\* statistics.stdev (sample standard deviation), rounded to two decimals:
\* variance = (r * sum(x^2) - sum(x)^2) / (r * (r - 1)), and
\* round(100 * sqrt(v)) = floor((floor(sqrt(40000 * v)) + 1) / 2)
StdevCenti(xs) ==
    LET r == Len(xs)
        num == r * SumSq(xs) - SumSeq(xs) * SumSeq(xs)
    IN  (Isqrt((40000 * num) \div (r * (r - 1))) + 1) \div 2

\* a faulty variant: it counts the replies received instead of the replies lost
ping_host_received(p, n) ==
    IF p.exc # "none" \/ p.returncode # 0 \/ p.times = <<>> THEN None
    ELSE [avg_latency |-> MeanCenti(p.times),
          jitter |-> IF Len(p.times) > 1 THEN StdevCenti(p.times) ELSE 0,
          packet_loss |-> RoundHalfEven(Len(p.times) * 10000, n),
          status |-> "UP"]

\* a faulty variant: it does not look at the return code
ping_host_anycode(p, n) ==
    IF p.exc # "none" \/ p.times = <<>> THEN None
    ELSE [avg_latency |-> MeanCenti(p.times),
          jitter |-> IF Len(p.times) > 1 THEN StdevCenti(p.times) ELSE 0,
          packet_loss |-> RoundHalfEven((n - Len(p.times)) * 10000, n),
          status |-> "UP"]

\* p: the outcome of subprocess.run; n: count
ping_host(p, n) ==
    IF p.exc # "none" THEN None                    \* except TimeoutExpired / Exception
    ELSE IF p.returncode # 0 THEN None
    ELSE LET latencies == p.times
         IN  IF latencies = <<>> THEN None
             ELSE [avg_latency |-> MeanCenti(latencies),
                   jitter |-> IF Len(latencies) > 1 THEN StdevCenti(latencies) ELSE 0,
                   packet_loss |-> RoundHalfEven((n - Len(latencies)) * 10000, n),
                   status |-> "UP"]

----------------------------------------------------------------------------
(* SpecScore: calculate_quality_score applied to inputs of a grid, then to  *)
(* the same inputs with one argument raised                                 *)

\* hundredths of a millisecond, all multiples of 0.04 ms (no exact tie)
LatencyGrid ==
    {4996, 5000, 5004, 5012, 15000, 24996, 25000, 25004}
    \cup {2000 * i : i \in 0..MaxLatencySteps}

\* hundredths of a millisecond
JitterGrid == {1, 2, 3, 158, 4999, 5001} \cup {500 * i : i \in 0..MaxJitterSteps}

\* hundredths of a percent; 12000 lies outside the valid range
LossGrid == {0, 1, 2, 33, 999, 1000, 6000, 9999, 10000, 12000}

unusedScore ==
    /\ latency = 0 /\ jitter = 0 /\ packet_loss = 0
    /\ quality_score = 0 /\ raised = "none" /\ prev_score = 0

unusedPing == count = 0 /\ proc = None /\ ping_result = None

unusedMain ==
    /\ pc = "unused" /\ idx = 0 /\ results = <<>>
    /\ exit_code = -1 /\ events = <<>>

unusedFiles == csv_files = <<>> /\ json_files = <<>> /\ today = 0

unusedRuns == script = "none" /\ run = 0 /\ trouble = {}

unusedSync ==
    /\ api_key = "unset" /\ account_info = None
    /\ monitors = <<>> /\ summary_file = None

InitScore ==
    /\ latency \in LatencyGrid
    /\ jitter \in JitterGrid
    /\ packet_loss \in LossGrid
    /\ quality_score = 0
    /\ raised = "input"
    /\ prev_score = 0
    /\ unusedPing /\ unusedMain /\ unusedFiles /\ unusedRuns /\ unusedSync

\* the call on the inputs drawn
Calculate ==
    /\ raised = "input"
    /\ quality_score' = calculate_quality_score(latency, jitter, packet_loss)
    /\ raised' = "none"
    /\ prev_score' = quality_score'
    /\ UNCHANGED <<latency, jitter, packet_loss, pingVars, mainVars, fileVars,
                   launchVars, trouble, syncVars>>

\* the call again, with one argument raised
RaiseLatency ==
    /\ raised = "none"
    /\ \E l \in LatencyGrid :
          /\ l > latency
          /\ latency' = l
          /\ quality_score' = calculate_quality_score(l, jitter, packet_loss)
    /\ raised' = "latency"
    /\ prev_score' = quality_score
    /\ UNCHANGED <<jitter, packet_loss, pingVars, mainVars, fileVars, launchVars, trouble, syncVars>>

RaiseJitter ==
    /\ raised = "none"
    /\ \E j \in JitterGrid :
          /\ j > jitter
          /\ jitter' = j
          /\ quality_score' = calculate_quality_score(latency, j, packet_loss)
    /\ raised' = "jitter"
    /\ prev_score' = quality_score
    /\ UNCHANGED <<latency, packet_loss, pingVars, mainVars, fileVars, launchVars, trouble, syncVars>>

RaisePacketLoss ==
    /\ raised = "none"
    /\ \E p \in LossGrid :
          /\ p > packet_loss
          /\ packet_loss' = p
          /\ quality_score' = calculate_quality_score(latency, jitter, p)
    /\ raised' = "packet_loss"
    /\ prev_score' = quality_score
    /\ UNCHANGED <<latency, jitter, pingVars, mainVars, fileVars, launchVars, trouble, syncVars>>

NextScore == Calculate \/ RaiseLatency \/ RaiseJitter \/ RaisePacketLoss

SpecScore == InitScore /\ [][NextScore]_vars

----------------------------------------------------------------------------
(* SpecPing: ping_host applied to every outcome of the ping subprocess, for *)
(* sample counts 1..MaxCount                                                *)

InitPing ==
    /\ count \in 1..MaxCount
    /\ proc = None
    /\ ping_result = None
    /\ unusedScore /\ unusedMain /\ unusedFiles /\ unusedRuns /\ unusedSync

PingHost ==
    /\ proc = None
    /\ \E p \in PingOutcomes(count) :
          /\ proc' = p
          /\ ping_result' = ping_host(p, count)
    /\ UNCHANGED <<count, scoreVars, mainVars, fileVars, launchVars, trouble, syncVars>>

NextPing == PingHost

SpecPing == InitPing /\ [][NextPing]_vars

----------------------------------------------------------------------------
(* monitor.py: test_with_curl *)

\* wall-clock times (hundredths of a ms) measured around the curl call
CurlTimes == {3500, 8012}

\* what subprocess.run(["curl", ...]) can do: raise, or return a code
CurlOutcomes ==
    {[exc |-> e, returncode |-> rc, response_time |-> t] :
        e \in {"none", "raised"}, rc \in {0, 7}, t \in CurlTimes}

\* a faulty variant: it reports UP whatever curl's return code
test_with_curl_anycode(c) ==
    IF c.exc # "none" THEN None
    ELSE [avg_latency |-> c.response_time, jitter |-> 0, packet_loss |-> 0,
          status |-> "UP"]

test_with_curl(c) ==
    IF c.exc # "none" THEN None                    \* except: pass
    ELSE IF c.returncode = 0
         THEN [avg_latency |-> c.response_time, jitter |-> 0, packet_loss |-> 0,
               status |-> "UP"]
         ELSE None

----------------------------------------------------------------------------
(* The file system, and the persistence functions of both scripts *)

Scripts == {"monitor", "sync"}

\* UTC days 1..MaxDay
MaxDay == 2
Days == 1..MaxDay

CsvHeader == [header |-> TRUE]
NoCsv == [exists |-> FALSE, rows |-> <<>>]

\* a daily JSON file: absent, a JSON array, or text that does not parse
\* (what an interrupted json.dump leaves behind)
NoJson == [state |-> "absent", data |-> <<>>]
CorruptJson == [state |-> "corrupt", data |-> <<>>]
JsonArray(d) == [state |-> "array", data |-> d]

\* a write that raises has put at most MaxPartial items into the file
MaxPartial == 1

\* faults of the file system during one save: none; open() raises; or the
\* write raises after `written` of the items have reached the file
NoFault == [kind |-> "none", written |-> 0]
CsvFaults(n) ==
    {NoFault, [kind |-> "open", written |-> 0]}
    \cup {[kind |-> "write", written |-> k] : k \in 0..Min(n, MaxPartial)}

\* reading the existing file raises; open(.., 'w') raises (nothing is
\* truncated); json.dump raises after the file was truncated
JsonFaults ==
    {NoFault, [kind |-> "read", written |-> 0], [kind |-> "open", written |-> 0],
     [kind |-> "write", written |-> 0]}

\* save_to_csv of both scripts: the header goes in only when the file did
\* not exist before the call; the result is the file and whether it raised
save_to_csv(file, rows, fault) ==
    LET file_exists == file.exists
        items == (IF file_exists THEN <<>> ELSE <<CsvHeader>>) \o rows
    IN  IF fault.kind = "open" THEN [file |-> file, raised |-> TRUE]
        ELSE IF fault.kind = "write" /\ fault.written < Len(items)
        THEN [file |-> [exists |-> TRUE,
                        rows |-> file.rows \o SubSeq(items, 1, fault.written)],
              raised |-> TRUE]
        ELSE [file |-> [exists |-> TRUE, rows |-> file.rows \o items],
              raised |-> FALSE]

\* monitor.save_to_json: json.load of an unreadable or unparsable file raises
monitor_save_to_json(file, rows, fault) ==
    IF file.state # "absent" /\ (file.state = "corrupt" \/ fault.kind = "read")
    THEN [file |-> file, raised |-> TRUE]
    ELSE LET data == file.data \o rows
         IN  IF fault.kind = "open" THEN [file |-> file, raised |-> TRUE]
             ELSE IF fault.kind = "write" THEN [file |-> CorruptJson, raised |-> TRUE]
             ELSE [file |-> JsonArray(data), raised |-> FALSE]

----------------------------------------------------------------------------
(* monitor.py: main *)

ISP_CONFIG ==
    << [isp_name |-> "BSNL", ip |-> "117.199.72.1"],
       [isp_name |-> "Google", ip |-> "8.8.8.8"],
       [isp_name |-> "Quad9", ip |-> "9.9.9.9"],
       [isp_name |-> "OpenDNS", ip |-> "208.67.222.222"] >>

\* the reply lines ping prints in the runs of main that are explored
MainReplyLines ==
    { <<>>, <<12>>, <<70, 12, 70>>, <<12, 12, 12, 12, 12>>, <<70, 70, 70, 70, 12>> }

MainPingOutcomes == {p \in PingOutcomes(DefaultCount) : p.times \in MainReplyLines}

\* the environment's view of a probe, for the history: the ping attempt
\* failed (timeout, another error, a non-zero return code, no reply line),
\* the curl attempt failed (an exception, a non-zero return code)
PingFailed(p) == p.exc # "none" \/ p.returncode # 0 \/ Len(p.times) = 0
CurlFailed(c) == c.exc # "none" \/ c.returncode # 0

\* the record main builds for target i from ping_result; the timestamp is
\* the number of the run
UpRecord(i, r, t) ==
    [timestamp |-> t, isp_name |-> ISP_CONFIG[i].isp_name, ip |-> ISP_CONFIG[i].ip,
     status |-> r.status, avg_latency |-> r.avg_latency, jitter |-> r.jitter,
     packet_loss |-> r.packet_loss,
     quality_score |-> calculate_quality_score(r.avg_latency, r.jitter, r.packet_loss)]

\* a faulty variant: it reports a DOWN target with no packet loss
DownRecord_noloss(i, t) ==
    [timestamp |-> t, isp_name |-> ISP_CONFIG[i].isp_name, ip |-> ISP_CONFIG[i].ip,
     status |-> "DOWN", avg_latency |-> 0, jitter |-> 0, packet_loss |-> 0,
     quality_score |-> 0]

DownRecord(i, t) ==
    [timestamp |-> t, isp_name |-> ISP_CONFIG[i].isp_name, ip |-> ISP_CONFIG[i].ip,
     status |-> "DOWN", avg_latency |-> 0, jitter |-> 0, packet_loss |-> 10000,
     quality_score |-> 0]

\* a record an earlier run left in the files
OldRecord == DownRecord(1, 0)

\* the files a run of main can find: none (the first run), or the CSV log
\* and the day's JSON file of an earlier run, the latter whole or cut short
OldCsv == [exists |-> TRUE, rows |-> <<CsvHeader, OldRecord>>]
InitFiles ==
    /\ today = 1
    /\ \E f \in {<<NoCsv, NoJson>>, <<OldCsv, JsonArray(<<OldRecord>>)>>,
                 <<OldCsv, CorruptJson>>} :
          /\ csv_files = [s \in Scripts |-> IF s = "monitor" THEN f[1] ELSE NoCsv]
          /\ json_files = [k \in Scripts \X Days |->
                              IF k = <<"monitor", 1>> THEN f[2] ELSE NoJson]

Init ==
    /\ pc = "start" /\ idx = 0 /\ results = <<>>
    /\ exit_code = -1 /\ events = <<>>
    /\ count = DefaultCount /\ proc = None /\ ping_result = None
    /\ InitFiles
    /\ script = "monitor" /\ run = 1 /\ trouble = {}
    /\ unusedScore /\ unusedSync

\* lines 175-184: test_connectivity (its answer is only printed),
\* ensure_directories (os.makedirs may raise), results = []
Start ==
    /\ pc = "start"
    /\ \E connected \in BOOLEAN, dirs_ok \in BOOLEAN :
          IF dirs_ok
          THEN /\ pc' = "ping" /\ idx' = 1 /\ results' = <<>>
               /\ UNCHANGED <<exit_code, trouble>>
          ELSE /\ pc' = "done" /\ exit_code' = 1
               /\ trouble' = trouble \cup {"filesystem_fault"}
               /\ UNCHANGED <<idx, results>>
    /\ UNCHANGED <<events, scoreVars, pingVars, fileVars, launchVars, syncVars>>

\* line 189: ping_result = ping_host(ip)
Ping ==
    /\ pc = "ping"
    /\ \E p \in MainPingOutcomes :
          /\ proc' = p
          /\ ping_result' = ping_host(p, count)
          /\ pc' = IF ping_result' = None THEN "curl" ELSE "record"
    /\ events' = Append(events, [op |-> "ping", i |-> idx, ok |-> ~PingFailed(proc')])
    /\ UNCHANGED <<count, idx, results, exit_code, scoreVars, fileVars,
                   launchVars, trouble, syncVars>>

\* lines 192-194: if not ping_result: ping_result = test_with_curl(ip)
Curl ==
    /\ pc = "curl"
    /\ \E c \in CurlOutcomes :
          /\ ping_result' = test_with_curl(c)
          /\ events' = Append(events, [op |-> "curl", i |-> idx, ok |-> ~CurlFailed(c)])
    /\ pc' = "record"
    /\ UNCHANGED <<count, proc, idx, results, exit_code, scoreVars, fileVars,
                   launchVars, trouble, syncVars>>

\* a faulty variant: it skips a target no strategy reached instead of recording it
Record_skipdown ==
    /\ pc = "record"
    /\ results' = IF ping_result # None
                  THEN Append(results, UpRecord(idx, ping_result, run))
                  ELSE results
    /\ events' = IF ping_result # None
                 THEN Append(events, [op |-> "record", i |-> idx, ok |-> TRUE])
                 ELSE events
    /\ IF idx < Len(ISP_CONFIG)
       THEN pc' = "ping" /\ idx' = idx + 1
       ELSE pc' = "save_csv" /\ idx' = idx
    /\ proc' = None /\ ping_result' = None
    /\ UNCHANGED <<count, exit_code, scoreVars, fileVars, launchVars, trouble,
                   syncVars>>

\* lines 196-226: build the record, append it, go to the next target
Record ==
    /\ pc = "record"
    /\ results' = Append(results, IF ping_result # None
                                  THEN UpRecord(idx, ping_result, run)
                                  ELSE DownRecord(idx, run))
    /\ events' = Append(events, [op |-> "record", i |-> idx, ok |-> TRUE])
    /\ IF idx < Len(ISP_CONFIG)
       THEN pc' = "ping" /\ idx' = idx + 1
       ELSE pc' = "save_csv" /\ idx' = idx
    /\ proc' = None /\ ping_result' = None
    /\ UNCHANGED <<count, exit_code, scoreVars, fileVars, launchVars, trouble,
                   syncVars>>

\* line 229: save_to_csv(results)
SaveCsv ==
    /\ pc = "save_csv"
    /\ \E fault \in CsvFaults(Len(results)) :
          LET out == save_to_csv(csv_files["monitor"], results, fault)
          IN  /\ csv_files' = [csv_files EXCEPT !["monitor"] = out.file]
              /\ IF out.raised
                 THEN /\ pc' = "done" /\ exit_code' = 1
                      /\ trouble' = trouble \cup {"filesystem_fault"}
                 ELSE /\ pc' = "save_json"
                      /\ UNCHANGED <<exit_code, trouble>>
              /\ events' = IF fault.kind = "open" THEN events
                           ELSE Append(events, [op |-> "csv", i |-> idx, ok |-> ~out.raised])
    /\ UNCHANGED <<idx, results, json_files, today, scoreVars, pingVars,
                   launchVars, syncVars>>

\* lines 230-238: save_to_json(results), the summary, and the normal end
SaveJson ==
    /\ pc = "save_json"
    /\ \E fault \in JsonFaults :
          LET key == <<"monitor", today>>
              out == monitor_save_to_json(json_files[key], results, fault)
          IN  /\ fault.kind = "read" => json_files[key].state # "absent"
              /\ json_files' = [json_files EXCEPT ![key] = out.file]
              /\ exit_code' = IF out.raised THEN 1 ELSE 0
              /\ trouble' = IF out.raised THEN trouble \cup {"filesystem_fault"}
                            ELSE trouble
              /\ events' = IF out.file = json_files[key] /\ out.raised THEN events
                           ELSE Append(events, [op |-> "json", i |-> idx, ok |-> ~out.raised])
    /\ pc' = "done"
    /\ UNCHANGED <<idx, results, csv_files, today, scoreVars, pingVars,
                   launchVars, syncVars>>

Next == Start \/ Ping \/ Curl \/ Record \/ SaveCsv \/ SaveJson

Spec == Init /\ [][Next]_vars

----------------------------------------------------------------------------
(* sync_uptimerobot.py *)

\* monitors 0..MaxMonitors in the account
MaxMonitors == 2

\* the status codes the fetched monitors carry: up, down, one not in the map
StatusCodes == {2, 9, 5}

get_status_text(status) ==
    CASE status = 0 -> "PAUSED"
      [] status = 1 -> "NOT_CHECKED_YET"
      [] status = 2 -> "UP"
      [] status = 8 -> "SEEMS_DOWN"
      [] status = 9 -> "DOWN"
      [] OTHER -> "UNKNOWN"

\* the lists of monitors getMonitors can return: all up, all down, mixed
MonitorLists ==
    {m \in SeqsUpTo(StatusCodes, MaxMonitors) :
        \A k \in 1..Len(m) : k > 1 => m[k] \in {m[1], 5}}

\* what requests.post(...), raise_for_status() and response.json() can do
\* in fetch_account_details: an account, an empty account object, an error
\* reported by the API, a transport or HTTP error, a body that is not JSON
AccountOutcomes == {"ok", "ok_empty", "api_error", "request_exception", "json_error"}

fetch_account_details(outcome) ==
    CASE outcome = "ok" -> [email |-> "owner", monitor_interval |-> 5]
      [] outcome = "ok_empty" -> [empty |-> TRUE]         \* {}: falsy
      [] OTHER -> None

\* "if not account_info": None and {} are falsy
NoAccount(x) == x = None \/ x = [empty |-> TRUE]

\* the same for fetch_monitors, which answers every failure with []
MonitorOutcomes ==
    {[kind |-> "ok", monitors |-> m] : m \in MonitorLists}
    \cup {[kind |-> k, monitors |-> <<>>] :
             k \in {"api_error", "request_exception", "json_error"}}

fetch_monitors(outcome) == IF outcome.kind = "ok" THEN outcome.monitors ELSE <<>>

\* the fields of a processed monitor that the runs below tell apart
process_monitor_data(ms, t) ==
    [k \in 1..Len(ms) |->
        [timestamp |-> t, monitor_id |-> k, status |-> get_status_text(ms[k])]]

\* UptimeRobotSync.save_to_json: a day file that cannot be read or parsed
\* counts as empty
sync_save_to_json(file, rows, fault) ==
    LET existing_data ==
            IF file.state = "absent" THEN <<>>
            ELSE IF file.state = "corrupt" \/ fault.kind = "read" THEN <<>>
            ELSE file.data
    IN  IF fault.kind = "open" THEN [file |-> file, raised |-> TRUE]
        ELSE IF fault.kind = "write" THEN [file |-> CorruptJson, raised |-> TRUE]
        ELSE [file |-> JsonArray(existing_data \o rows), raised |-> FALSE]

CountStatus(data, S) == Cardinality({k \in 1..Len(data) : data[k].status \in S})

\* create_summary_json: summary.json is replaced as a whole
create_summary_json(file, data, fault) ==
    IF fault.kind = "open" THEN [file |-> file, raised |-> TRUE]
    ELSE IF fault.kind = "write" THEN [file |-> [corrupt |-> TRUE], raised |-> TRUE]
    ELSE [file |-> [total_monitors |-> Len(data),
                    monitors_up |-> CountStatus(data, {"UP"}),
                    monitors_down |-> CountStatus(data, {"DOWN", "SEEMS_DOWN"})],
          raised |-> FALSE]

SummaryFaults ==
    {NoFault, [kind |-> "open", written |-> 0], [kind |-> "write", written |-> 0]}

----------------------------------------------------------------------------
(* SpecRuns: up to MaxRuns runs of the two scripts, one after the other, on *)
(* a file system that starts empty; the UTC day may change at any time.     *)
(* The probes of a monitor run are taken as a whole here (Spec has them     *)
(* one by one).                                                             *)

MaxRuns == 2

InitRuns ==
    /\ pc = "done" /\ idx = 0 /\ results = <<>>
    /\ exit_code = -1 /\ events = <<>>
    /\ count = DefaultCount /\ proc = None /\ ping_result = None
    /\ today = 1
    /\ csv_files = [s \in Scripts |-> NoCsv]
    /\ json_files = [k \in Scripts \X Days |-> NoJson]
    /\ script = "none" /\ run = 0 /\ trouble = {}
    /\ unusedScore /\ unusedSync

\* midnight UTC passes; a run reads the date once, in save_to_json, so a
\* change of day during a run is a change of day before it
Tick ==
    /\ pc = "done"
    /\ today < MaxDay
    /\ today' = today + 1
    /\ UNCHANGED <<scoreVars, pingVars, mainVars, csv_files, json_files,
                   launchVars, trouble, syncVars>>

\* the scheduler starts monitor.py
LaunchMonitor ==
    /\ pc = "done" /\ run < MaxRuns
    /\ script' = "monitor" /\ run' = run + 1
    /\ pc' = "start" /\ idx' = 0 /\ results' = <<>>
    /\ exit_code' = -1 /\ events' = <<>> /\ trouble' = {}
    /\ UNCHANGED <<scoreVars, pingVars, fileVars, syncVars>>

\* a probe that answers all five pings in 12 ms
GoodPing ==
    ping_host([exc |-> "none", returncode |-> 0, times |-> <<12, 12, 12, 12, 12>>],
              DefaultCount)

\* lines 186-226 as one step: every target gets its record, UP or DOWN;
\* none DOWN, the first DOWN, or all DOWN
ProbeAll ==
    /\ script = "monitor" /\ pc = "ping" /\ idx = 1
    /\ \E down \in {{}, {1}, 1..Len(ISP_CONFIG)} :
          results' = [i \in 1..Len(ISP_CONFIG) |->
                         IF i \in down THEN DownRecord(i, run)
                         ELSE UpRecord(i, GoodPing, run)]
    /\ pc' = "save_csv" /\ idx' = Len(ISP_CONFIG)
    /\ UNCHANGED <<exit_code, events, scoreVars, pingVars, fileVars, launchVars,
                   trouble, syncVars>>

\* the scheduler starts sync_uptimerobot.py with the environment it has:
\* main, lines 292-316, and sync_data up to ensure_directories
KeyStates == {"missing", "malformed", "valid"}
SyncMain ==
    /\ pc = "done" /\ run < MaxRuns
    /\ script' = "sync" /\ run' = run + 1
    /\ idx' = 0 /\ results' = <<>> /\ events' = <<>>
    /\ account_info' = None /\ monitors' = <<>>
    /\ \E key \in KeyStates, dirs_ok \in BOOLEAN :
          /\ api_key' = key
          /\ IF key = "missing"
             THEN /\ pc' = "done" /\ exit_code' = 1
                  /\ trouble' = {"missing_credential"}
             ELSE IF key = "malformed"
             THEN /\ pc' = "done" /\ exit_code' = 1
                  /\ trouble' = {"malformed_credential"}
             ELSE IF ~dirs_ok
             THEN /\ pc' = "done" /\ exit_code' = 1
                  /\ trouble' = {"filesystem_fault"}
             ELSE /\ pc' = "account" /\ exit_code' = -1
                  /\ trouble' = {}
    /\ UNCHANGED <<scoreVars, pingVars, fileVars, summary_file>>

\* what a failed request says about the run
AccountTrouble(outcome) ==
    CASE outcome = "api_error" -> {"credential_rejected"}
      [] outcome = "request_exception" -> {"network_failure"}
      [] outcome = "json_error" -> {"unparsable_response"}
      [] outcome = "ok_empty" -> {"empty_account"}
      [] OTHER -> {}

MonitorsTrouble(outcome) ==
    CASE outcome.kind = "api_error" -> {"api_error"}
      [] outcome.kind = "request_exception" -> {"network_failure"}
      [] outcome.kind = "json_error" -> {"unparsable_response"}
      [] OTHER -> {}

\* sync_data, lines 249-262
FetchAccount ==
    /\ script = "sync" /\ pc = "account"
    /\ \E outcome \in AccountOutcomes :
          /\ account_info' = fetch_account_details(outcome)
          /\ trouble' = trouble \cup AccountTrouble(outcome)
          /\ IF NoAccount(account_info')
             THEN pc' = "done" /\ exit_code' = 1           \* return False
             ELSE pc' = "monitors" /\ UNCHANGED exit_code
    /\ UNCHANGED <<idx, results, events, scoreVars, pingVars, fileVars,
                   launchVars, api_key, monitors, summary_file>>

\* sync_data, lines 264-273: fetch_monitors; with no monitors the empty
\* summary is written and the run ends well; else the monitors are processed
FetchMonitors ==
    /\ script = "sync" /\ pc = "monitors"
    /\ \E outcome \in MonitorOutcomes, fault \in SummaryFaults :
          /\ monitors' = fetch_monitors(outcome)
          /\ IF monitors' = <<>>
             THEN LET out == create_summary_json(summary_file, <<>>, fault)
                  IN  /\ summary_file' = out.file
                      /\ pc' = "done"
                      /\ exit_code' = IF out.raised THEN 1 ELSE 0
                      /\ trouble' = trouble \cup MonitorsTrouble(outcome)
                                    \cup (IF out.raised THEN {"filesystem_fault"} ELSE {})
                      /\ UNCHANGED results
             ELSE /\ fault = NoFault
                  /\ results' = process_monitor_data(monitors', run)
                  /\ pc' = "save_csv"
                  /\ trouble' = trouble \cup MonitorsTrouble(outcome)
                  /\ UNCHANGED <<exit_code, summary_file>>
    /\ UNCHANGED <<idx, events, scoreVars, pingVars, fileVars, launchVars,
                   api_key, account_info>>

\* sync_data, line 277
SyncSaveCsv ==
    /\ script = "sync" /\ pc = "save_csv"
    /\ \E fault \in CsvFaults(Len(results)) :
          LET out == save_to_csv(csv_files["sync"], results, fault)
          IN  /\ csv_files' = [csv_files EXCEPT !["sync"] = out.file]
              /\ IF out.raised
                 THEN /\ pc' = "done" /\ exit_code' = 1
                      /\ trouble' = trouble \cup {"filesystem_fault"}
                 ELSE /\ pc' = "save_json"
                      /\ UNCHANGED <<exit_code, trouble>>
    /\ UNCHANGED <<idx, results, events, json_files, today, scoreVars, pingVars,
                   launchVars, syncVars>>

\* sync_data, line 278; a fault the function swallows is a fault all the same
SyncSaveJson ==
    /\ script = "sync" /\ pc = "save_json"
    /\ \E fault \in JsonFaults :
          LET key == <<"sync", today>>
              out == sync_save_to_json(json_files[key], results, fault)
          IN  /\ fault.kind = "read" => json_files[key].state # "absent"
              /\ json_files' = [json_files EXCEPT ![key] = out.file]
              /\ IF out.raised
                 THEN pc' = "done" /\ exit_code' = 1
                 ELSE pc' = "summary" /\ UNCHANGED exit_code
              /\ trouble' = IF fault.kind # "none" \/ json_files[key].state = "corrupt"
                            THEN trouble \cup {"filesystem_fault"}
                            ELSE trouble
    /\ UNCHANGED <<idx, results, events, csv_files, today, scoreVars, pingVars,
                   launchVars, syncVars>>

\* sync_data, lines 279-290, and the exit of lines 318-327
CreateSummary ==
    /\ script = "sync" /\ pc = "summary"
    /\ \E fault \in SummaryFaults :
          LET out == create_summary_json(summary_file, results, fault)
          IN  /\ summary_file' = out.file
              /\ exit_code' = IF out.raised THEN 1 ELSE 0
              /\ trouble' = IF out.raised THEN trouble \cup {"filesystem_fault"}
                            ELSE trouble
    /\ pc' = "done"
    /\ UNCHANGED <<idx, results, events, scoreVars, pingVars, fileVars,
                   launchVars, api_key, account_info, monitors>>

MonitorRun ==
    /\ script = "monitor"
    /\ (Start \/ ProbeAll \/ SaveCsv \/ SaveJson)

NextRuns ==
    \/ Tick
    \/ LaunchMonitor
    \/ MonitorRun
    \/ SyncMain
    \/ FetchAccount
    \/ FetchMonitors
    \/ SyncSaveCsv
    \/ SyncSaveJson
    \/ CreateSummary

SpecRuns == InitRuns /\ [][NextRuns]_vars

----------------------------------------------------------------------------
(* Properties of one run of monitor.main (Spec) *)

IsProbe(e) == e.op \in {"ping", "curl", "record"}
EventsOf(i) == SelectSeq(events, LAMBDA e : IsProbe(e) /\ e.i = i)
EventsOp(op) == SelectSeq(events, LAMBDA e : e.op = op)
Probed == {events[k].i : k \in {m \in 1..Len(events) : IsProbe(events[m])}}

\* the records the run has written to the monitor's files
JsonToday == json_files[<<"monitor", today>>]
Written ==
    ({csv_files["monitor"].rows[k] : k \in 1..Len(csv_files["monitor"].rows)}
        \ {CsvHeader})
    \cup {JsonToday.data[k] : k \in 1..Len(JsonToday.data)}

\* C1: for every target the strategies come in the order ping, HTTP
\* fallback, DOWN: the fallback is attempted if and only if the ping attempt
\* failed (exception, timeout, non-zero return code or no reply line), a
\* successful ping is followed directly by its record, and a DOWN record is
\* produced only after a failed ping and a failed fallback.
C1_StrategyOrder ==
    /\ pc = "curl" =>
          /\ events # <<>>
          /\ events[Len(events)] = [op |-> "ping", i |-> idx, ok |-> FALSE]
    /\ \A i \in Probed :
          LET E == EventsOf(i)
          IN  /\ E[1].op = "ping"
              /\ Len(E) <= 3
              /\ Len(E) >= 2 => (E[1].ok <=> E[2].op = "record")
              /\ Len(E) >= 2 => (~E[1].ok <=> E[2].op = "curl")
              /\ Len(E) = 3 => E[3].op = "record"
              /\ (i <= Len(results) /\ results[i].status = "DOWN") =>
                    /\ Len(E) = 3
                    /\ ~E[1].ok /\ ~E[2].ok

\* a target whose ping and fallback both failed and whose DOWN record is in,
\* next to a target whose ping succeeded and a target the fallback reached
C1_Witness ==
    /\ Len(results) >= 3
    /\ \E i \in 1..Len(results) :
          results[i].status = "DOWN" /\ Len(EventsOf(i)) = 3
    /\ \E i \in 1..Len(results) : Len(EventsOf(i)) = 2
    /\ \E i \in 1..Len(results) :
          results[i].status = "UP" /\ Len(EventsOf(i)) = 3

\* C2: a target no strategy reached gets exactly the record status DOWN,
\* avg_latency 0, jitter 0, packet_loss 100, quality_score 0; every DOWN
\* record collected or written has exactly these values; every other record
\* has status UP.
C2_DownShape ==
    /\ \A i \in 1..Len(results) :
          LET E == EventsOf(i)
              noStrategy == ~E[1].ok /\ (E[2].op = "curl" => ~E[2].ok)
          IN  noStrategy =>
                 results[i] = [timestamp |-> run,
                               isp_name |-> ISP_CONFIG[i].isp_name,
                               ip |-> ISP_CONFIG[i].ip, status |-> "DOWN",
                               avg_latency |-> 0, jitter |-> 0,
                               packet_loss |-> 10000, quality_score |-> 0]
    /\ \A r \in {results[k] : k \in 1..Len(results)} \cup Written :
          /\ r.status \in {"UP", "DOWN"}
          /\ r.status = "DOWN" =>
                /\ r.avg_latency = 0 /\ r.jitter = 0
                /\ r.packet_loss = 10000 /\ r.quality_score = 0

\* a DOWN record of this run has reached the daily JSON file
C2_Witness ==
    /\ exit_code = 0
    /\ \E r \in Written : r.status = "DOWN" /\ r.isp_name = "Google"
    /\ \E r \in Written : r.status = "UP"

\* the score of every valid input of the grid lies in [0, 100]
ScoreRangeOnGrid ==
    \A l \in LatencyGrid, j \in JitterGrid, p \in LossGrid :
        p <= 10000 => calculate_quality_score(l, j, p) \in 0..1000

\* C7: calculate_quality_score returns a value in [0, 100] for every valid
\* input, and every record a monitor run collects or writes has its
\* quality_score in [0, 100].
C7_ScoreRange ==
    /\ ScoreRangeOnGrid
    /\ \A r \in {results[k] : k \in 1..Len(results)} \cup Written :
          r.quality_score \in 0..1000

\* written records at both ends of the range and strictly inside it
C7_Witness ==
    /\ exit_code = 0
    /\ \E r \in Written : r.status = "UP" /\ r.quality_score = 0
    /\ \E r \in Written : r.quality_score = 1000
    /\ \E r \in Written : r.quality_score > 0 /\ r.quality_score < 1000

----------------------------------------------------------------------------
(* Properties of calculate_quality_score (SpecScore) *)

\* 100 - max(0, latency - 50) * 0.5 - jitter * 2 - packet_loss * 10,
\* in thousandths
RawScore == 100000 - 5 * Max(0, latency - 5000) - 20 * jitter - 100 * packet_loss

\* C6: the score is 0 whenever packet_loss >= 100; otherwise it is
\* 100 - max(0, latency - 50) * 0.5 - jitter * 2 - packet_loss * 10 clamped
\* to [0, 100] and rounded to one decimal (the multiple of 0.1 nearest to
\* the clamped value); (50, 0, 0) gives 100 and (150, 5, 0) gives 40.0.
C6_ScoreFormula ==
    raised # "input" =>
    /\ packet_loss >= 10000 => quality_score = 0
    /\ packet_loss < 10000 =>
          /\ quality_score \in 0..1000
          /\ RawScore <= 0 => quality_score = 0
          /\ RawScore >= 100000 => quality_score = 1000
          /\ (RawScore > 0 /\ RawScore < 100000) =>
                /\ 100 * quality_score - RawScore < 50
                /\ RawScore - 100 * quality_score < 50
    /\ (latency = 5000 /\ jitter = 0 /\ packet_loss = 0) => quality_score = 1000
    /\ (latency = 15000 /\ jitter = 500 /\ packet_loss = 0) => quality_score = 400

\* the worked example of the spec, (150, 5, 0) -> 40.0
C6_Witness ==
    /\ raised # "input"
    /\ latency = 15000 /\ jitter = 500 /\ packet_loss = 0
    /\ quality_score = 400

\* C8: with the other two arguments held fixed, raising latency, jitter or
\* packet_loss never raises the score, across the packet_loss >= 100
\* short-circuit, the clamp and the rounding included.
C8_Monotone == raised \in {"latency", "jitter", "packet_loss"} => quality_score <= prev_score

\* latency raised beyond 50 ms lowers the score
C8_Witness ==
    /\ raised = "latency" /\ latency > 5000
    /\ quality_score < prev_score /\ quality_score > 0

----------------------------------------------------------------------------
(* Properties of ping_host (SpecPing) *)

Replies == Len(proc.times)
Completed == proc # None /\ proc.exc = "none" /\ proc.returncode = 0

\* C9 as stated: with 1 <= r <= n replies, packet_loss is exactly
\* (n - r) / n * 100.
C9_ExactLoss ==
    (Completed /\ Replies >= 1 /\ ping_result # None) =>
        ping_result.packet_loss * count = (count - Replies) * 10000

\* C9, amended: when the ping command returns 0 with r reply lines,
\* 1 <= r <= n, ping_host returns status UP with packet_loss the two-decimal
\* value nearest to (n - r) / n * 100, so 0 <= packet_loss < 100 (n = 5,
\* r = 2 gives 60.0), and jitter 0 when r = 1; it returns None only when no
\* reply line was parsed, the return code is non-zero, or the invocation
\* raised or timed out.
C9_PingResult ==
    proc # None =>
        /\ (Completed /\ Replies >= 1) =>
              /\ ping_result # None
              /\ ping_result.status = "UP"
              /\ 2 * (ping_result.packet_loss * count - (count - Replies) * 10000)
                    <= count
              /\ 2 * ((count - Replies) * 10000 - ping_result.packet_loss * count)
                    <= count
              /\ ping_result.packet_loss >= 0 /\ ping_result.packet_loss < 10000
              /\ Replies = 1 => ping_result.jitter = 0
        /\ ping_result = None =>
              (Replies = 0 \/ proc.returncode # 0 \/ proc.exc # "none")

\* 5 samples, 2 replies: packet_loss 60.0
C9_Witness ==
    /\ Completed /\ count = 5 /\ Replies = 2
    /\ ping_result # None
    /\ ping_result.packet_loss = 6000 /\ ping_result.jitter > 0

----------------------------------------------------------------------------
(* Properties of the runs of both scripts (SpecRuns) *)

\* a step in which save_to_json returns without raising
JsonSaved ==
    /\ pc = "save_json"
    /\ \/ script = "monitor" /\ exit_code' = 0
       \/ script = "sync" /\ pc' = "summary"

\* C3: whenever save_to_json of either script returns, the array the day's
\* file held before is a prefix of the array it holds now, followed by the
\* records of this run: no record persisted earlier is removed or replaced,
\* whatever state the file was in.
C3_JsonOnlyGrows ==
    [][JsonSaved =>
          LET key == <<script, today>>
          IN  /\ json_files'[key].state = "array"
              /\ json_files'[key].data = json_files[key].data \o results]_vars

\* the credential is missing, malformed or rejected by the API, or the API
\* returns no account for it
ConfigurationFailures ==
    {"missing_credential", "malformed_credential", "credential_rejected",
     "empty_account"}

\* C4: a run that met no configuration failure and no fault of the file
\* system exits with status 0, however many targets or monitors are DOWN and
\* whatever the network did; only a configuration failure or a fault of the
\* file system gives a non-zero exit.
C4_ExitStatus ==
    (exit_code # -1 /\ trouble \cap (ConfigurationFailures \cup {"filesystem_fault"}) = {})
        => exit_code = 0

FatalConditions ==
    {"missing_credential", "credential_rejected", "unparsable_response",
     "api_error", "filesystem_fault"}

\* C5: in the synchronizer a missing credential, a response of the API that
\* does not parse or reports an error, and a failure of the file system
\* while persisting each end the run with a non-zero exit status.
C5_FatalExits ==
    (script = "sync" /\ exit_code # -1 /\ trouble \cap FatalConditions # {})
        => exit_code # 0

\* the rows of a CSV log that are header rows
HeaderRows(file) ==
    {i \in 1..Len(file.rows) : file.rows[i] = CsvHeader}

\* C11: after any sequence of runs of either script, a CSV log that holds
\* any row holds exactly one header row, and that row is its first row;
\* every row after it is a record.
C11_CsvHeaderOnce ==
    \A s \in Scripts :
        (pc = "done" /\ csv_files[s].rows # <<>>) => HeaderRows(csv_files[s]) = {1}

====
